---- MODULE Spec2Model ----
(***************************************************************************)
(* The weekly issue summary of Harry-Lees/RoundupSummary, in its two       *)
(* revisions: run.py (requests, bounded retry, stops on an empty page) and *)
(* .github/actions/roundup_summary.py (urllib, no retry, stops on a short  *)
(* page).  The model follows one run of either script: the start of        *)
(* __main__, the pagination loop of get_issues against a remote API that   *)
(* answers each request as it likes, and the classification and rendering  *)
(* of the issues.  The pure helpers (opened_between, most_discussed,       *)
(* create_issue_table) are also called directly on bounded inputs.         *)
(***************************************************************************)
EXTENDS Integers, Sequences, FiniteSets, TLC

VARIABLES
    script,             \* which revision runs
    DEBUG,              \* the module-level DEBUG flag
    environ,            \* os.environ: USERNAME (set) and TOKEN (set or not; run.py reads neither)
    auth,               \* roundup_summary.py: the encoded credentials
    pc,                 \* position of the run
    caller,             \* who called get_issues: "main" or "test"
    max_retries,        \* run.py: get_issues' parameter
    page,               \* params["page"]
    attempt,            \* run.py: attempts already made on this page (the for index)
    resp,               \* the last answer received: its status and item count
    response,           \* the accumulator (response / responses)
    error,              \* the exception that ended the run, "" when none
    sent,               \* every request the transport issued, with its outcome
    issues,             \* __main__: the issue list
    open_issues, closed_issues, new_open_issues, new_closed_issues,
    msg,                \* __main__: the fields handed to the template
    call                \* a direct call of a helper: its arguments and result

vars == <<script, DEBUG, environ, auth, pc, caller, max_retries, page, attempt,
          resp, response, error, sent, issues, open_issues, closed_issues,
          new_open_issues, new_closed_issues, msg, call>>

fetchVars == <<max_retries, page, attempt, resp, response, sent>>
mainVars == <<issues, open_issues, closed_issues, new_open_issues,
              new_closed_issues, msg>>

----------------------------------------------------------------------------
(* Bounds of the model *)

\* pages the remote is followed through before the model stops asking
MaxPage == 3
\* largest max_retries a direct call of run.py's get_issues passes
MaxRetriesArg == 2
\* size of the non-empty short page the remote may return
ShortPage == 37

(* Program constants *)

\* params["per_page"], and the literal of `len(data) < 100`
per_page == 100
\* get_issues(max_retries: int = 5)
DefaultMaxRetries == 5

Scripts == {"run.py", "roundup_summary.py"}

----------------------------------------------------------------------------
(* Issues *)

\* "%Y-%m-%dT%H:%M:%SZ": a timestamp is the tuple of its six fields
Stamp(y, mo, d, h, mi, s) == <<y, mo, d, h, mi, s>>

MkIssue(n, st, c, ts, ty, lg) ==
    [number |-> n, title |-> "title", user |-> [type |-> ty, login |-> lg],
     state |-> st, comments |-> c, created_at |-> ts]

\* the k-th issue of the remote listing
RemoteIssue(k) ==
    MkIssue(k, IF k % 3 = 0 THEN "closed" ELSE "open", k % 4,
            Stamp(2022, 2, 13 + (k % 8), 12, 0, 0), "User", "octocat")

\* page p of the remote listing when the remote returns n items for it
Page(p, n) == [i \in 1..n |-> RemoteIssue((p - 1) * per_page + i)]

PageSizes == {0, ShortPage, per_page}

----------------------------------------------------------------------------
(* Start of __main__ *)

EnvNames == {"USERNAME", "TOKEN"}

\* os.environ.get(name): None when the variable is not set
None == "None"
EnvGet(name) == IF name \in DOMAIN environ THEN environ[name] ELSE None

\* "{}".format(v): None prints as the text None
Format(v) == IF v = None THEN "None" ELSE v

\* base64.b64encode("{}:{}".format(USERNAME, TOKEN).encode())
B64(user, token) == <<"b64", Format(user), ":", Format(token)>>

Init ==
    /\ script \in Scripts
    /\ DEBUG \in BOOLEAN
    /\ environ \in {[name \in names |-> "secret"] : names \in {{"USERNAME"}, EnvNames}}
    /\ script = "run.py" => DOMAIN environ = EnvNames
    /\ auth = <<>>
    /\ pc = "start"
    /\ caller = "none"
    /\ max_retries = 0
    /\ page = 1
    /\ attempt = 0
    /\ resp = [status_code |-> 0, items |-> 0]
    /\ response = <<>>
    /\ error = ""
    /\ sent = <<>>
    /\ issues = <<>>
    /\ open_issues = <<>>
    /\ closed_issues = <<>>
    /\ new_open_issues = <<>>
    /\ new_closed_issues = <<>>
    /\ msg = <<>>
    /\ call = <<>>

----------------------------------------------------------------------------
(* The helpers of both scripts (their text is the same in the two files) *)

\* date_range(): the fixed week of the test issues
date_range == <<<<2022, 2, 14>>, <<2022, 2, 20>>>>

\* everything that is not closed taken for open
is_open_unless_closed(issue) == issue["state"] # "closed"

is_open(issue) == issue["state"] = "open"

\* datetime.strptime(created_at, "%Y-%m-%dT%H:%M:%SZ").date(): the time is dropped
ParseDate(created_at) == SubSeq(created_at, 1, 3)

\* date.__gt__: a > b on (year, month, day)
DateGT(a, b) ==
    \/ a[1] > b[1]
    \/ a[1] = b[1] /\ a[2] > b[2]
    \/ a[1] = b[1] /\ a[2] = b[2] /\ a[3] > b[3]

\* the start date taken into the window
opened_between_from_start(issue, start, stop) ==
    /\ DateGT(stop, ParseDate(issue["created_at"]))
    /\ ~DateGT(start, ParseDate(issue["created_at"]))

\* stop > created > start
opened_between(issue, start, stop) ==
    /\ DateGT(stop, ParseDate(issue["created_at"]))
    /\ DateGT(ParseDate(issue["created_at"]), start)

\* a slice that takes one element too many
SliceToInclusive(seq, n) == SubSeq(seq, 1, IF n + 1 < Len(seq) THEN n + 1 ELSE Len(seq))

\* seq[:n], Python's slice: a negative n counts from the end
SliceTo(seq, n) ==
    IF n >= 0
    THEN SubSeq(seq, 1, IF n < Len(seq) THEN n ELSE Len(seq))
    ELSE SubSeq(seq, 1, IF Len(seq) + n > 0 THEN Len(seq) + n ELSE 0)

\* an unstable sort: x goes before the elements of the same key
RECURSIVE InsertBeforeEqual(_, _)
InsertBeforeEqual(x, seq) ==
    IF seq = <<>> THEN <<x>>
    ELSE IF x["comments"] <= Head(seq)["comments"] THEN <<x>> \o seq
    ELSE <<Head(seq)>> \o InsertBeforeEqual(x, Tail(seq))

\* one step of sorted(): x goes after every element whose key is not larger
RECURSIVE InsertByComments(_, _)
InsertByComments(x, seq) ==
    IF seq = <<>> THEN <<x>>
    ELSE IF x["comments"] < Head(seq)["comments"] THEN <<x>> \o seq
    ELSE <<Head(seq)>> \o InsertByComments(x, Tail(seq))

\* sorted(seq, key=lambda issue: issue["comments"]): ascending and stable
RECURSIVE SortedByComments(_)
SortedByComments(seq) ==
    IF seq = <<>> THEN <<>>
    ELSE InsertByComments(seq[Len(seq)], SortedByComments(SubSeq(seq, 1, Len(seq) - 1)))

most_discussed(iss, top) ==
    SliceTo(SortedByComments(SelectSeq(iss, LAMBDA issue : issue["state"] = "open")), top)

\* "https://github.com/python/issues-test-demo-20220218/issues/{}".format(number)
IssueUrl(number) ==
    <<"https://github.com/python/issues-test-demo-20220218/issues/", ToString(number)>>

\* the placeholder name decided by the login instead of the account type
TableRowByLogin(issue) ==
    LET username == IF issue["user"]["login"] = "Mannequin"
                    THEN "Mannequin"
                    ELSE issue["user"]["login"]
    IN  <<"<p>#", ToString(issue["number"]), ": ", issue["title"], "<br><a href=\"">>
            \o IssueUrl(issue["number"]) \o <<"\">">> \o IssueUrl(issue["number"])
            \o <<"</a> opened by ", username, "</p>">>

\* TEMPLATE.format(id=, title=, url=, opener=): the text of one row, as the
\* pieces of the template and the texts put between them
TableRow(issue) ==
    LET username == IF issue["user"]["type"] = "Mannequin"
                    THEN "Mannequin"
                    ELSE issue["user"]["login"]
    IN  <<"<p>#", ToString(issue["number"]), ": ", issue["title"], "<br><a href=\"">>
            \o IssueUrl(issue["number"]) \o <<"\">">> \o IssueUrl(issue["number"])
            \o <<"</a> opened by ", username, "</p>">>

\* '\n'.join(table): the rows, each of the same number of pieces, with a
\* newline between two of them
Join(rows) ==
    IF rows = <<>> THEN <<>>
    ELSE LET w == Len(rows[1]) + 1
         IN  [k \in 1..(w * Len(rows) - 1) |->
                 IF k % w = 0 THEN "\n" ELSE rows[((k - 1) \div w) + 1][k % w]]

\* limit is <<>> for None and <<n>> for the integer n
create_issue_table(iss, limit) ==
    LET lim == IF limit = <<>> THEN Len(iss) ELSE limit[1]
        shown == SliceTo(iss, lim)
    IN  Join([i \in 1..Len(shown) |-> TableRow(shown[i])])

----------------------------------------------------------------------------
(* Inputs of the direct calls and the content of test.json *)

\* longest issue list handed to a helper or read from test.json
MaxIssues == 3

Pool ==
    { MkIssue(1, "open",    5, Stamp(2022, 2, 14, 23, 59, 59), "User",      "alice"),
      MkIssue(2, "open",    1, Stamp(2022, 2, 15,  0,  0,  0), "Mannequin", "bob"),
      MkIssue(3, "closed",  0, Stamp(2022, 2, 19, 23, 59, 59), "User",      "Mannequin"),
      MkIssue(4, "open",    5, Stamp(2022, 2, 20,  0,  0,  0), "Mannequin", "Mannequin"),
      MkIssue(5, "unknown", 9, Stamp(2022, 1, 17, 12,  0,  0), "Bot",       "dependabot") }

IssueLists == UNION {[1..n -> Pool] : n \in 0..MaxIssues}

Dates == {<<2021, 12, 31>>, <<2022, 2, 14>>, <<2022, 2, 20>>}

Tops == -1..(MaxIssues + 1)

Limits == {<<>>} \cup {<<n>> : n \in -1..(MaxIssues + 1)}

----------------------------------------------------------------------------
(* __main__ up to the fetch *)

\* run.py: no credentials; DEBUG reads test.json, otherwise get_issues()
MainRun ==
    /\ pc = "start"
    /\ script = "run.py"
    /\ IF DEBUG
       THEN /\ \E content \in IssueLists : issues' = content
            /\ pc' = "loaded"
            /\ UNCHANGED <<caller, max_retries>>
       ELSE /\ caller' = "main"
            /\ max_retries' = DefaultMaxRetries
            /\ pc' = "call"
            /\ UNCHANGED issues
    /\ UNCHANGED <<script, DEBUG, environ, auth, page, attempt, resp, response,
                   error, sent, open_issues, closed_issues, new_open_issues,
                   new_closed_issues, msg, call>>

\* roundup_summary.py: the credentials are formatted and encoded whether or not
\* they are set; DEBUG reads test.json, otherwise get_issues(auth)
MainAction ==
    /\ pc = "start"
    /\ script = "roundup_summary.py"
    /\ auth' = B64(EnvGet("USERNAME"), EnvGet("TOKEN"))
    /\ IF DEBUG
       THEN /\ \E content \in IssueLists : issues' = content
            /\ pc' = "loaded"
            /\ UNCHANGED caller
       ELSE /\ caller' = "main"
            /\ pc' = "call"
            /\ UNCHANGED issues
    /\ UNCHANGED <<script, DEBUG, environ, max_retries, page, attempt, resp,
                   response, error, sent, open_issues, closed_issues, new_open_issues,
                   new_closed_issues, msg, call>>

\* run.py's get_issues(max_retries=n) called on its own; range(0) is empty, so
\* the for loop's else clause raises at once
CallGetIssues(n) ==
    /\ pc = "start"
    /\ script = "run.py"
    /\ caller' = "test"
    /\ max_retries' = n
    /\ IF n = 0
       THEN pc' = "raised" /\ error' = "ValueError"
       ELSE pc' = "call" /\ UNCHANGED error
    /\ UNCHANGED <<script, DEBUG, environ, auth, page, attempt, resp, response,
                   sent, call>>
    /\ UNCHANGED mainVars

----------------------------------------------------------------------------
(* get_issues: one request, and the remote's answer to it.  With fold, the  *)
(* counters that grow without bound stop growing once page MaxPage is       *)
(* reached: pages from MaxPage on are folded into MaxPage, their items and  *)
(* the request log are dropped.  The loop reads none of them to decide      *)
(* what to do next.                                                         *)

\* a loop that never moves to the next page
NextPageStuck(fold) == page

\* params["page"] += 1
NextPage(fold) == IF fold /\ page >= MaxPage THEN page ELSE page + 1

Extended(fold, data) == IF fold /\ page >= MaxPage THEN response ELSE response \o data

Outcome(fold, what, n) ==
    IF fold THEN sent
    ELSE [sent EXCEPT ![Len(sent)] = [@ EXCEPT !.outcome = what, !.n = n]]

\* requests.get(...) / urlopen(request): the request leaves
Request(fold) ==
    /\ pc = "call"
    /\ fold \/ page <= MaxPage
    /\ pc' = "wait"
    /\ sent' = IF fold THEN sent
               ELSE Append(sent, [page |-> page, outcome |-> "pending", n |-> 0])
    /\ UNCHANGED <<script, DEBUG, environ, auth, caller, max_retries, page,
                   attempt, resp, response, error, call>>
    /\ UNCHANGED mainVars

\* run.py: status 200 with n items; an empty page ends the loop, any other
\* page is accumulated and the next one asked for
RunOK(fold, n) ==
    /\ pc = "wait"
    /\ script = "run.py"
    /\ sent' = Outcome(fold, "ok", n)
    /\ resp' = [status_code |-> 200, items |-> n]
    /\ IF n = 0
       THEN /\ pc' = "returned"
            /\ UNCHANGED <<page, response, attempt>>
       ELSE /\ page' = NextPage(fold)
            /\ response' = Extended(fold, Page(page, n))
            /\ attempt' = 0
            /\ pc' = "call"
    /\ UNCHANGED <<script, DEBUG, environ, auth, caller, max_retries, error, call>>
    /\ UNCHANGED mainVars

\* a retry that is not counted
NextAttemptUncounted == attempt

\* the for loop moves to its next index
NextAttempt == attempt + 1

\* run.py: a status other than 200; the for loop goes on, and its else clause
\* raises once range(max_retries) is used up
RunStatus(fold) ==
    /\ pc = "wait"
    /\ script = "run.py"
    /\ sent' = Outcome(fold, "status", 0)
    /\ resp' = [status_code |-> 500, items |-> 0]
    /\ attempt' = NextAttempt
    /\ IF NextAttempt >= max_retries
       THEN pc' = "raised" /\ error' = "ValueError"
       ELSE pc' = "call" /\ UNCHANGED error
    /\ UNCHANGED <<script, DEBUG, environ, auth, caller, max_retries, page,
                   response, call>>
    /\ UNCHANGED mainVars

\* run.py: requests.get raises (no connection); nothing catches it
RunException(fold) ==
    /\ pc = "wait"
    /\ script = "run.py"
    /\ sent' = Outcome(fold, "exception", 0)
    /\ pc' = "raised"
    /\ error' = "ConnectionError"
    /\ UNCHANGED <<script, DEBUG, environ, auth, caller, max_retries, page,
                   attempt, resp, response, call>>
    /\ UNCHANGED mainVars

\* roundup_summary.py: get returns n items; they are accumulated, a short page
\* ends the loop, a full one asks for the next
ActionOK(fold, n) ==
    /\ pc = "wait"
    /\ script = "roundup_summary.py"
    /\ sent' = Outcome(fold, "ok", n)
    /\ resp' = [status_code |-> 200, items |-> n]
    /\ response' = Extended(fold, Page(page, n))
    /\ IF n < per_page
       THEN pc' = "returned" /\ UNCHANGED page
       ELSE pc' = "call" /\ page' = NextPage(fold)
    /\ UNCHANGED <<script, DEBUG, environ, auth, caller, max_retries, attempt,
                   error, call>>
    /\ UNCHANGED mainVars

\* roundup_summary.py: get raises: urlopen's HTTPError for an error status,
\* its URLError for no connection, get's own IOError for another status
ActionFail(fold, kind) ==
    /\ pc = "wait"
    /\ script = "roundup_summary.py"
    /\ sent' = Outcome(fold, IF kind = "URLError" THEN "exception" ELSE "status", 0)
    /\ pc' = "raised"
    /\ error' = kind
    /\ UNCHANGED <<script, DEBUG, environ, auth, caller, max_retries, page,
                   attempt, resp, response, call>>
    /\ UNCHANGED mainVars

\* issues = get_issues(...)
MainResume ==
    /\ pc = "returned"
    /\ caller = "main"
    /\ issues' = response
    /\ pc' = "loaded"
    /\ UNCHANGED <<script, DEBUG, environ, auth, caller, error, call,
                   open_issues, closed_issues, new_open_issues,
                   new_closed_issues, msg>>
    /\ UNCHANGED fetchVars

----------------------------------------------------------------------------
(* __main__ after the issues are there *)

\* the four filters of __main__; is_new is opened_between on date_range()
Classify ==
    /\ pc = "loaded"
    /\ LET start == date_range[1]
           stop == date_range[2]
           is_new(issue) == opened_between(issue, start, stop)
           not_open(x) == ~is_open(x)
           opened == SelectSeq(issues, is_open)
           closed == SelectSeq(issues, not_open)
       IN  /\ open_issues' = opened
           /\ closed_issues' = closed
           /\ new_open_issues' = SelectSeq(opened, is_new)
           /\ new_closed_issues' = SelectSeq(closed, is_new)
    /\ pc' = "classified"
    /\ UNCHANGED <<script, DEBUG, environ, auth, caller, error, call, issues, msg>>
    /\ UNCHANGED fetchVars

\* html.format(...) and the write of out.html
Report ==
    /\ pc = "classified"
    /\ msg' = [timespan |-> date_range,
               num_opened_issues |-> Len(open_issues),
               num_closed_issues |-> Len(closed_issues),
               num_new_opened_issues |-> Len(new_open_issues),
               num_new_closed_issues |-> Len(new_closed_issues),
               total |-> Len(issues),
               total_new |-> Len(new_open_issues \o new_closed_issues),
               patches |-> 0,
               opened_issues |-> create_issue_table(new_open_issues, <<>>),
               closed_issues |-> create_issue_table(new_closed_issues, <<>>)]
    /\ pc' = "reported"
    /\ UNCHANGED <<script, DEBUG, environ, auth, caller, error, call, issues,
                   open_issues, closed_issues, new_open_issues, new_closed_issues>>
    /\ UNCHANGED fetchVars

----------------------------------------------------------------------------
(* Direct calls of the helpers, as run.py defines them (roundup_summary.py  *)
(* repeats their text)                                                      *)

callFrame == <<script, DEBUG, environ, auth, caller, error, fetchVars, mainVars>>

\* list(filter(partial(opened_between, start=start, stop=stop), iss))
CallFilterNew(iss, start, stop) ==
    /\ pc = "start"
    /\ script = "run.py"
    /\ LET is_new(issue) == opened_between(issue, start, stop)
       IN  call' = [fn |-> "filter_new", issues |-> iss, start |-> start,
                    stop |-> stop, result |-> SelectSeq(iss, is_new)]
    /\ pc' = "called"
    /\ UNCHANGED callFrame

CallMostDiscussed(iss, top) ==
    /\ pc = "start"
    /\ script = "run.py"
    /\ call' = [fn |-> "most_discussed", issues |-> iss, top |-> top,
                result |-> most_discussed(iss, top)]
    /\ pc' = "called"
    /\ UNCHANGED callFrame

CallCreateIssueTable(iss, limit) ==
    /\ pc = "start"
    /\ script = "run.py"
    /\ call' = [fn |-> "create_issue_table", issues |-> iss, limit |-> limit,
                result |-> create_issue_table(iss, limit)]
    /\ pc' = "called"
    /\ UNCHANGED callFrame

----------------------------------------------------------------------------
(* The runs of the two scripts *)

Next ==
    \/ MainRun
    \/ MainAction
    \/ \E n \in 0..MaxRetriesArg : CallGetIssues(n)
    \/ Request(FALSE)
    \/ \E n \in PageSizes : RunOK(FALSE, n)
    \/ RunStatus(FALSE)
    \/ RunException(FALSE)
    \/ \E n \in PageSizes : ActionOK(FALSE, n)
    \/ \E kind \in {"HTTPError", "IOError", "URLError"} : ActionFail(FALSE, kind)
    \/ MainResume
    \/ Classify
    \/ Report

Spec == Init /\ [][Next]_vars

(* The fetch alone, followed for as long as the remote keeps answering: the *)
(* script is single-threaded and blocks on each call, so a step that can be *)
(* taken is taken.                                                          *)

LiveInit == Init /\ ~DEBUG

LiveNext ==
    \/ MainRun
    \/ MainAction
    \/ \E n \in 0..MaxRetriesArg : CallGetIssues(n)
    \/ Request(TRUE)
    \/ \E n \in PageSizes : RunOK(TRUE, n)
    \/ RunStatus(TRUE)
    \/ RunException(TRUE)
    \/ \E n \in PageSizes : ActionOK(TRUE, n)
    \/ \E kind \in {"HTTPError", "IOError", "URLError"} : ActionFail(TRUE, kind)

LiveSpec == LiveInit /\ [][LiveNext]_vars /\ WF_vars(LiveNext)

(* The runs that use no network: the DEBUG runs on test.json, and the       *)
(* helpers called on their own.                                             *)

CallInit == Init /\ DEBUG /\ DOMAIN environ = EnvNames

CallNext ==
    \/ \E iss \in IssueLists : \E start \in Dates : \E stop \in Dates :
            CallFilterNew(iss, start, stop)
    \/ \E iss \in IssueLists : \E top \in Tops : CallMostDiscussed(iss, top)
    \/ \E iss \in IssueLists : \E limit \in Limits : CallCreateIssueTable(iss, limit)
    \/ MainRun
    \/ MainAction
    \/ Classify
    \/ Report

CallSpec == CallInit /\ [][CallNext]_vars

----------------------------------------------------------------------------
(* What the request log says *)

Failed(i) == sent[i]["outcome"] \in {"status", "exception"}

NoFailure == \A i \in 1..Len(sent) : ~Failed(i)

FailuresOn(log, p) == Cardinality({i \in 1..Len(log) : log[i]["page"] = p /\ log[i]["outcome"] \in {"status", "exception"}})

RequestsFor(p) == Cardinality({i \in 1..Len(sent) : sent[i]["page"] = p})

FetchReturned == caller # "none" /\ pc \in {"returned", "loaded", "classified", "reported"}

\* the pages the first k requests were answered with, one after the other
RECURSIVE PagesReceived(_)
PagesReceived(k) ==
    IF k = 0 THEN <<>>
    ELSE PagesReceived(k - 1) \o Page(sent[k]["page"], sent[k]["n"])

\* the retry bound of a page: run.py's parameter; roundup_summary.py's docstring
\* promises "up to max_retries times", the default of that parameter
RetryBudget == IF script = "run.py" THEN max_retries ELSE DefaultMaxRetries

\* the page on which each script leaves the loop
IsLastPage(n) == IF script = "run.py" THEN n = 0 ELSE n < per_page

----------------------------------------------------------------------------
(* C1 *)

----------------------------------------------------------------------------
(* C2 *)

\* C2: no page is requested more often than the retry bound allows, and a
\* fetch that ended on a request answered with an error status has raised the
\* exhaustion error, after exactly that many failed attempts on the page it
\* was on.  (A request that raises instead of being answered is C4's case.)
C2_BoundedRetry ==
    /\ caller # "none" => \A p \in 1..(MaxPage + 1) : RequestsFor(p) <= RetryBudget
    /\ pc = "raised" /\ sent # <<>> /\ sent[Len(sent)]["outcome"] = "status"
          => error = "ValueError" /\ FailuresOn(sent, page) = RetryBudget

----------------------------------------------------------------------------
(* C4 *)

\* C4: a request that fails while the page's retry budget is not used up is
\* followed by another request for the same page; it does not end the fetch.
C4_FailureIsRetried ==
    [][(/\ pc = "wait"
        /\ Len(sent') = Len(sent)
        /\ sent'[Len(sent)]["outcome"] \in {"status", "exception"}
        /\ FailuresOn(sent', page) < RetryBudget)
       => pc' = "call" /\ page' = page]_vars

----------------------------------------------------------------------------
(* C5 *)

\* C5: a run of the script that reads the credential, started without TOKEN,
\* sends no request and produces no report.
C5_NoRequestWithoutToken ==
    script = "roundup_summary.py" /\ "TOKEN" \notin DOMAIN environ
        => sent = <<>> /\ pc # "reported"

----------------------------------------------------------------------------
(* C3 *)

Terminated == pc \in {"returned", "raised"}

\* an answer after which the script asks for the next page
ContinuingAnswer ==
    /\ pc = "wait"
    /\ resp'["status_code"] = 200
    /\ IF script = "run.py" THEN resp'["items"] > 0 ELSE resp'["items"] >= per_page

\* C3 as stated: whatever the remote answers, the fetch ends.
C3_AlwaysTerminates == <>Terminated

\* C3 amended: the fetch ends unless the remote keeps answering with pages the
\* script continues after (full pages for roundup_summary.py, non-empty pages
\* for run.py), in which case it asks for pages forever.
C3_TerminatesUnlessPagesKeepComing ==
    (<>Terminated) \/ ([]<><<ContinuingAnswer>>_vars)

\* the fetch has ended on a later page than the first
C3_Witness == Terminated /\ page >= 2 /\ resp["status_code"] = 200

----------------------------------------------------------------------------
(* Subsequences and rendered tables *)

\* the k-th smallest index of the index set I
KthOf(I, k) == CHOOSE i \in I : Cardinality({j \in I : j <= i}) = k

\* the elements of s at the indexes I, in the order of s
SubseqAt(s, I) == [k \in 1..Cardinality(I) |-> s[KthOf(I, k)]]

IsPrefix(a, b) == Len(a) <= Len(b) /\ a = SubSeq(b, 1, Len(a))

Least(a, b) == IF a < b THEN a ELSE b

\* the positions at which the rows of a table start and end
RowStarts(table) == {k \in 1..Len(table) : table[k] = "<p>#"}
RowEnds(table) == {k \in 1..Len(table) : table[k] = "</p>"}
RowCount(table) == Cardinality(RowStarts(table))

\* the issue number and the opener shown by row i
ShownNumber(table, i) == table[KthOf(RowStarts(table), i) + 1]
ShownOpener(table, i) == table[KthOf(RowEnds(table), i) - 1]

CalledFn(fn) == pc = "called" /\ call["fn"] = fn

----------------------------------------------------------------------------
(* C6 *)

OpenAt == {i \in 1..Len(issues) : issues[i]["state"] = "open"}

\* C6: once __main__ has classified, open_issues and closed_issues are the
\* issues at two disjoint index sets that cover the input, each in input
\* order; every open one has state "open", no closed one has; and the counts
\* of the report add up to the total.
C6_PartitionByState ==
    pc \in {"classified", "reported"} =>
        /\ open_issues = SubseqAt(issues, OpenAt)
        /\ closed_issues = SubseqAt(issues, (1..Len(issues)) \ OpenAt)
        /\ \A i \in 1..Len(open_issues) : open_issues[i]["state"] = "open"
        /\ \A i \in 1..Len(closed_issues) : closed_issues[i]["state"] # "open"
        /\ Len(open_issues) + Len(closed_issues) = Len(issues)
        /\ pc = "reported" =>
              /\ msg["total"] = Len(issues)
              /\ msg["num_opened_issues"] + msg["num_closed_issues"] = msg["total"]

\* a report on three issues, one of them neither open nor closed
C6_Witness ==
    /\ pc = "reported"
    /\ Len(issues) = 3
    /\ open_issues # <<>>
    /\ \E i \in 1..Len(closed_issues) : closed_issues[i]["state"] = "unknown"
    /\ \E i \in 1..Len(closed_issues) : closed_issues[i]["state"] = "closed"

----------------------------------------------------------------------------
(* C7 *)

\* a date as one number, larger for a later date
DayNumber(d) == (d[1] * 12 + d[2]) * 31 + d[3]

CreatedOn(issue) == <<issue["created_at"][1], issue["created_at"][2], issue["created_at"][3]>>

\* C7: filtering with opened_between returns, in input order, exactly the
\* issues created on a date strictly after start and strictly before stop.
C7_StrictlyInsideWindow ==
    CalledFn("filter_new") =>
        call["result"] =
            SubseqAt(call["issues"],
                     {i \in 1..Len(call["issues"]) :
                         /\ DayNumber(call["start"]) < DayNumber(CreatedOn(call["issues"][i]))
                         /\ DayNumber(CreatedOn(call["issues"][i])) < DayNumber(call["stop"])})

\* three issues, created on the start date, inside the window and on the stop
\* date: only the one inside is returned
C7_Witness ==
    /\ CalledFn("filter_new")
    /\ Len(call["issues"]) = 3
    /\ CreatedOn(call["issues"][1]) = call["start"]
    /\ CreatedOn(call["issues"][3]) = call["stop"]
    /\ call["result"] = <<call["issues"][2]>>

----------------------------------------------------------------------------
(* C8 *)

CommentCounts(seq) == {seq[i]["comments"] : i \in 1..Len(seq)}

WithComments(seq, c) == SelectSeq(seq, LAMBDA x : x["comments"] = c)

\* result is the n lowest-comment elements of cands (all of them when there
\* are fewer), ascending by comment count, equal counts in the order of cands
LowestByComments(result, cands, n) ==
    /\ Len(result) = Least(n, Len(cands))
    /\ \A i \in 1..Len(result) : \A j \in i..Len(result) :
          result[i]["comments"] <= result[j]["comments"]
    /\ \A c \in CommentCounts(result) \cup CommentCounts(cands) :
          /\ IsPrefix(WithComments(result, c), WithComments(cands, c))
          /\ Len(WithComments(result, c)) < Len(WithComments(cands, c))
                => \A i \in 1..Len(result) : result[i]["comments"] <= c

\* C8 as stated: for top >= 0 most_discussed returns the top lowest-comment
\* issues of the whole input, ascending, ties in input order.
C8_LowestOfInput ==
    CalledFn("most_discussed") /\ call["top"] >= 0 =>
        LowestByComments(call["result"], call["issues"], call["top"])

\* C8 amended: for top >= 0 most_discussed returns the top lowest-comment
\* issues among the open issues of the input, ascending, ties in input order.
C8_LowestOfOpen ==
    CalledFn("most_discussed") /\ call["top"] >= 0 =>
        LowestByComments(call["result"],
                         SelectSeq(call["issues"], LAMBDA x : x["state"] = "open"),
                         call["top"])

\* top = 2 on a closed issue with the fewest comments and two open issues with
\* the same count: the two open ones are returned, in input order
C8_Witness ==
    /\ CalledFn("most_discussed")
    /\ call["top"] = 2
    /\ Len(call["issues"]) = 3
    /\ call["issues"][1]["state"] = "closed"
    /\ call["issues"][1]["comments"] < call["issues"][2]["comments"]
    /\ call["issues"][2]["comments"] = call["issues"][3]["comments"]
    /\ call["issues"][2] # call["issues"][3]
    /\ call["result"] = <<call["issues"][2], call["issues"][3]>>

----------------------------------------------------------------------------
(* C9 *)

\* the table shows the first k issues of iss, in order
ShowsPrefix(table, iss, k) ==
    /\ RowCount(table) = k
    /\ \A i \in 1..RowCount(table) : ShownNumber(table, i) = ToString(iss[i]["number"])

\* C9 as stated: for every integer limit the table is the prefix of length
\* min(limit, len(issues)) (all issues for None; no row where that length is
\* negative), and most_discussed returns at most top issues (none for a
\* negative top).
C9_BoundedForEveryLimit ==
    /\ CalledFn("create_issue_table") =>
          ShowsPrefix(call["result"], call["issues"],
                      IF call["limit"] = <<>> THEN Len(call["issues"])
                      ELSE IF call["limit"][1] < 0 THEN 0
                      ELSE Least(call["limit"][1], Len(call["issues"])))
    /\ CalledFn("most_discussed") =>
          Len(call["result"]) <= (IF call["top"] < 0 THEN 0 ELSE call["top"])

\* C9 amended: the same for limit >= 0 or None, and for top >= 0.
C9_BoundedForNaturalLimit ==
    /\ CalledFn("create_issue_table") /\ (call["limit"] = <<>> \/ call["limit"][1] >= 0) =>
          ShowsPrefix(call["result"], call["issues"],
                      IF call["limit"] = <<>> THEN Len(call["issues"])
                      ELSE Least(call["limit"][1], Len(call["issues"])))
    /\ CalledFn("most_discussed") /\ call["top"] >= 0 => Len(call["result"]) <= call["top"]

\* limit = 2 on three issues: two rows
C9_Witness ==
    /\ CalledFn("create_issue_table")
    /\ call["limit"] = <<2>>
    /\ Len(call["issues"]) = 3
    /\ RowCount(call["result"]) = 2

----------------------------------------------------------------------------
(* C10 *)

\* C10: row i of a table shows "Mannequin" as opener when the author of
\* issue i has account type "Mannequin", whatever the login, and the login
\* for any other account type.
C10_Anonymization ==
    CalledFn("create_issue_table") =>
        \A i \in 1..RowCount(call["result"]) :
            ShownOpener(call["result"], i) =
                IF call["issues"][i]["user"]["type"] = "Mannequin"
                THEN "Mannequin"
                ELSE call["issues"][i]["user"]["login"]

\* a table with a Mannequin whose login is not "Mannequin" and an ordinary
\* user whose login is
C10_Witness ==
    /\ CalledFn("create_issue_table")
    /\ RowCount(call["result"]) = 2
    /\ call["issues"][1]["user"] = [type |-> "Mannequin", login |-> "bob"]
    /\ call["issues"][2]["user"] = [type |-> "User", login |-> "Mannequin"]
    /\ ShownOpener(call["result"], 1) = "Mannequin"
    /\ ShownOpener(call["result"], 2) = "Mannequin"

====
